---- MODULE Spec2Model ----
(***************************************************************************)
(* Model of the vmcloak command line front end (vmcloak/main.py): the      *)
(* commands clone, init, install, modify, snapshot and export, the Image   *)
(* and Snapshot records they persist, and the hypervisor commands and      *)
(* agent requests they issue, one at a time, in program order.             *)
(*                                                                         *)
(* One command runs at a time.  A command is a straight sequence of calls; *)
(* every call into the hypervisor, the agent or the network may fail, and  *)
(* a failure is an exception nothing in main.py catches (except the        *)
(* DependencyError handler of install): the command stops where it is.     *)
(***************************************************************************)
EXTENDS Integers, Sequences, FiniteSets, TLC

VARIABLES
    images,      \* the rows of the Image table, in order of insertion; id = position
    snapshots,   \* the rows of the Snapshot table, in order of insertion
    op,          \* the command that is running, or "none"
    pc,          \* where the running command is
    idx,         \* position in the run of calls the command is working through
    args,        \* the arguments the command was invoked with
    image,       \* id of the Image row the command loaded (0: none)
    loc,         \* the command's local variables
    trace        \* the calls the running command has issued so far, in order

vars == <<images, snapshots, op, pc, idx, args, image, loc, trace>>

-----------------------------------------------------------------------------
(* Bounds of the model. *)

MaxImages == 2
MaxSnapshots == 1

(* Inputs the commands are tried with. *)

Names == {"a", "b"}
VmNames == {"vm1"}
OsVariants == <<"winxp", "win7x86", "win7x64", "win81x86", "win81x64", "win10x86", "win10x64">>
OsFlagChoices == {{}, {"winxp"}, {"win7x64"}}
RamChoices == {<<>>}
CpuChoices == {1}
VmChoices == {"virtualbox", "kvm"}
ResolutionChoices == {"", "1024x768"}
FilepathChoices == {"out.ova", "out.txt"}
EnvChoices == {"ok", "no_iso", "bad_serial", "buildiso_failed"}

NoArgs == [name |-> ""]
NoLoc == [osversion |-> ""]

-----------------------------------------------------------------------------
(* Calls and the record of a call that was issued. *)

Cmd(k, c, a) == [kind |-> k, call |-> c, arg |-> a]
Hv(c) == Cmd("hv", c, "")
Rpc(c) == Cmd("agent", c, "")
WaitForHost == Cmd("net", "wait_for_host", "")

Event(cmd, ok) == [kind |-> cmd.kind, call |-> cmd.call, arg |-> cmd.arg, ok |-> ok]

(* The outcomes a call can have: it returns, or it raises. *)
Outcomes(cmd) == BOOLEAN

(* The image file of an image name: os.path.join(image_path, "%s.vdi" % name). *)
PathOf(name) == <<"image_path", name, ".vdi">>

(* session.query(Image).filter_by(name=name).first(): the rows the query can
   return.  The query has no ORDER BY, so with several rows of that name any
   of them may come first. *)
FindByName(name) == {i \in DOMAIN images : images[i].name = name}

-----------------------------------------------------------------------------
(* image.mode != "normal": the test install, modify and export make on the
   row they loaded. *)
image_locked_never(img) == FALSE

image_locked(img) == img.mode # "normal"

-----------------------------------------------------------------------------
(* The state after construction: an empty repository, no command running. *)

Init ==
    /\ images = <<>>
    /\ snapshots = <<>>
    /\ op = "none"
    /\ pc = "idle"
    /\ idx = 1
    /\ args = NoArgs
    /\ image = 0
    /\ loc = NoLoc
    /\ trace = <<>>

(* Issue the next call of a run of calls.  When it returns the command goes
   on to the next call, or to `after' behind the last one; when it raises the
   command is over. *)
RunCall(calls, after) ==
    /\ idx <= Len(calls)
    /\ \E ok \in Outcomes(calls[idx]) :
        /\ trace' = Append(trace, Event(calls[idx], ok))
        /\ IF ~ok
             THEN pc' = "aborted" /\ idx' = idx
             ELSE IF idx = Len(calls)
                    THEN pc' = after /\ idx' = 1
                    ELSE pc' = pc /\ idx' = idx + 1
    /\ UNCHANGED <<images, snapshots, op, args, image, loc>>

(* A command that has ended (returned, exit(1), or an uncaught exception)
   leaves nothing behind but the repository. *)
Return ==
    /\ pc \in {"done", "exit", "aborted"}
    /\ pc' = "idle"
    /\ op' = "none"
    /\ idx' = 1
    /\ args' = NoArgs
    /\ image' = 0
    /\ loc' = NoLoc
    /\ trace' = <<>>
    /\ UNCHANGED <<images, snapshots>>

-----------------------------------------------------------------------------
(* clone *)

clone_calls == <<Cmd("hv", "clone_hd", "")>>

(* The Image table after clone's session.add and commit: the loaded row is
   made transient, given no id, mode normal, the new name and path, and
   inserted as a new row. *)
clone_rows_inplace(rows, i, outname, outpath) ==
    [rows EXCEPT ![i].mode = "normal", ![i].name = outname, ![i].path = outpath]

clone_rows(rows, i, outname, outpath) ==
    Append(rows, [rows[i] EXCEPT !.id = Len(rows) + 1,
                                 !.mode = "normal",
                                 !.name = outname,
                                 !.path = outpath])

clone_begin(name, outname) ==
    /\ pc = "idle"
    /\ Len(images) < MaxImages
    /\ op' = "clone"
    /\ args' = [name |-> name, outname |-> outname]
    /\ IF FindByName(name) = {}
         THEN /\ pc' = "exit"
              /\ image' = 0
              /\ loc' = NoLoc
         ELSE /\ pc' = "clone_hd"
              /\ image' \in FindByName(name)
              /\ loc' = [outpath |-> PathOf(outname)]
    /\ UNCHANGED <<images, snapshots, idx, trace>>

clone_hd ==
    /\ pc = "clone_hd"
    /\ RunCall(clone_calls, "clone_commit")

clone_commit ==
    /\ pc = "clone_commit"
    /\ images' = clone_rows(images, image, args.outname, loc.outpath)
    /\ pc' = "done"
    /\ UNCHANGED <<snapshots, op, idx, args, image, loc, trace>>

-----------------------------------------------------------------------------
(* init *)

(* The if/elif chain over the OS flags: the first flag set, in the order of
   the chain, selects the variant; "" when none is set. *)
RECURSIVE FirstFlag(_, _)
FirstFlag(flags, i) ==
    IF i > Len(OsVariants) THEN ""
    ELSE IF OsVariants[i] \in flags THEN OsVariants[i]
    ELSE FirstFlag(flags, i + 1)

SelectOs(flags) == FirstFlag(flags, 1)

(* ramsize = ramsize or <default of the variant>.  The option is <<>> when
   --ramsize is not given (None) and <<n>> when it is; `or' takes the default
   for None and for 0 alike. *)
DefaultRam_all2048(osversion) == 2048

DefaultRam(osversion) ==
    IF osversion \in {"winxp", "win7x86"} THEN 1024 ELSE 2048

ResolveRam(ramsize, osversion) ==
    IF ramsize = <<>> \/ ramsize[1] = 0 THEN DefaultRam(osversion)
    ELSE ramsize[1]

(* "%s" % h.service_pack, of the handler of the variant. *)
ServicePack(osversion) == <<"service_pack", osversion>>

init_calls == <<
    Hv("create_vm"), Hv("os_type"), Hv("cpus"), Hv("mouse"), Hv("ramsize"),
    Hv("create_hd"), Hv("attach_iso"), Hv("hostonly"),
    Hv("start_vm"),
    Hv("wait_for_state"),
    Hv("detach_iso"),
    Hv("remove_hd"), Hv("compact_hd"), Hv("delete_vm") >>

(* What makes init give up before it builds the VM, in the order of the
   checks; "" when it goes on. *)
init_reject_after_build(name, flags, vm, env) ==
    IF FindByName(name) # {} THEN "exists"
    ELSE IF vm # "virtualbox" THEN "machinery"
    ELSE IF SelectOs(flags) = "" THEN "no_os"
    ELSE IF env = "no_iso" THEN "iso_mount"
    ELSE IF env = "bad_serial" THEN "serial_key"
    ELSE ""

init_reject(name, flags, vm, env) ==
    IF FindByName(name) # {} THEN "exists"
    ELSE IF vm # "virtualbox" THEN "machinery"
    ELSE IF SelectOs(flags) = "" THEN "no_os"
    ELSE IF env = "no_iso" THEN "iso_mount"
    ELSE IF env = "bad_serial" THEN "serial_key"
    ELSE IF env = "buildiso_failed" THEN "buildiso"
    ELSE ""

(* The row init adds. *)
init_row(rows, a, l) ==
    [id |-> Len(rows) + 1, name |-> a.name, path |-> l.hdd_path,
     osversion |-> l.osversion, servicepack |-> ServicePack(l.osversion),
     mode |-> "normal", ipaddr |-> a.ip, port |-> a.port,
     adapter |-> a.adapter, netmask |-> a.netmask, gateway |-> a.gateway,
     cpus |-> a.cpus, ramsize |-> l.ramsize]

init_begin(name, flags, vm, ramsize, cpus, env) ==
    /\ pc = "idle"
    /\ Len(images) < MaxImages
    /\ op' = "init"
    /\ args' = [name |-> name, flags |-> flags, vm |-> vm, ramsize |-> ramsize,
                cpus |-> cpus, env |-> env,
                ip |-> "192.168.56.2", port |-> 8000, adapter |-> "vboxnet0",
                netmask |-> "255.255.255.0", gateway |-> "192.168.56.1"]
    /\ IF init_reject(name, flags, vm, env) # ""
         THEN /\ pc' = "exit"
              /\ loc' = [reject |-> init_reject(name, flags, vm, env)]
         ELSE /\ pc' = "init_vm"
              /\ loc' = [osversion |-> SelectOs(flags),
                         ramsize |-> ResolveRam(ramsize, SelectOs(flags)),
                         hdd_path |-> PathOf(name)]
    /\ UNCHANGED <<images, snapshots, idx, image, trace>>

init_vm ==
    /\ pc = "init_vm"
    /\ RunCall(init_calls, "init_commit")

init_commit ==
    /\ pc = "init_commit"
    /\ images' = Append(images, init_row(images, args, loc))
    /\ pc' = "done"
    /\ UNCHANGED <<snapshots, op, idx, args, image, loc, trace>>

-----------------------------------------------------------------------------
(* install *)

(* The registry vmcloak.dependencies.names the commands are tried against:
   A, B and C are installers, B declares the child C, C declares the child A,
   X is no installer. *)
DependencyNames == {"A", "B", "C"}
Depends(d) ==
    IF d = "B" THEN <<"C">>
    ELSE IF d = "C" THEN <<"A">>
    ELSE <<>>

(* The argument strings install is tried with, and what the string tests and
   splits of the program make of them. *)
Tokens == {"A", "B", "C", "X", "B:1", "a.b=1"}
HasDotAndEq(t) == t \in {"a.b=1"}
HasColon(t) == t \in {"B:1"}
SplitEq(t) == IF t = "a.b=1" THEN <<"a.b", "1">> ELSE <<t>>
SplitColon(t) == IF t = "B:1" THEN <<"B", "1">> ELSE <<t>>

RequestChoices == {<<>>, <<"A", "B">>, <<"A", "X", "B">>, <<"C", "B">>}

install_calls == <<
    Hv("create_vm"), Hv("os_type"), Hv("cpus"), Hv("mouse"), Hv("ramsize"),
    Cmd("hv", "attach_hd", "single"),
    Hv("detach_iso"), Hv("hostonly"),
    Hv("start_vm"),
    WaitForHost,
    Rpc("ping") >>

install_cleanup_calls_compact_first == <<
    Rpc("shutdown"),
    Hv("wait_for_state"),
    Hv("compact_hd"), Hv("remove_hd"), Hv("delete_vm") >>

install_cleanup_calls_kill == <<
    Rpc("shutdown"), Rpc("kill"),
    Hv("wait_for_state"),
    Hv("remove_hd"), Hv("compact_hd"), Hv("delete_vm") >>

install_cleanup_calls == <<
    Rpc("shutdown"),
    Hv("wait_for_state"),
    Hv("remove_hd"), Hv("compact_hd"), Hv("delete_vm") >>

(* The first loop of install: `for dependency in dependencies', over the list
   it also appends to. *)
RECURSIVE parse_tokens(_, _, _)
parse_tokens(dependencies, i, settings) ==
    IF i > Len(dependencies)
      THEN [settings |-> settings, dependencies |-> dependencies]
    ELSE IF HasDotAndEq(dependencies[i])
      THEN parse_tokens(dependencies, i + 1,
                        settings \cup {SplitEq(dependencies[i])})
    ELSE IF HasColon(dependencies[i])
      THEN parse_tokens(Append(dependencies, SplitColon(dependencies[i])),
                        i + 1, settings)
    ELSE parse_tokens(Append(dependencies, <<dependencies[i], "">>),
                      i + 1, settings)

(* settings = {}; dependencies = []; and the first loop.  The assignment
   rebinds the parameter `dependencies': the list the loop reads is the new,
   empty one, whatever was requested. *)
install_parse_result(requested) ==
    LET dependencies == <<>>
    IN  parse_tokens(dependencies, 1, {})

install_begin(name, dependencies) ==
    /\ pc = "idle"
    /\ op' = "install"
    /\ args' = [name |-> name, dependencies |-> dependencies]
    /\ IF FindByName(name) = {}
         THEN /\ pc' = "exit"
              /\ image' = 0
         ELSE /\ image' \in FindByName(name)
              /\ pc' = IF image_locked(images[image']) THEN "exit"
                       ELSE "install_vm"
    /\ UNCHANGED <<images, snapshots, idx, loc, trace>>

install_vm ==
    /\ pc = "install_vm"
    /\ RunCall(install_calls, "install_parse")

install_parse ==
    /\ pc = "install_parse"
    /\ loc' = [settings |-> install_parse_result(args.dependencies).settings,
               dependencies |-> install_parse_result(args.dependencies).dependencies,
               i |-> 1, j |-> 1]
    /\ pc' = "install_loop"
    /\ UNCHANGED <<images, snapshots, op, idx, args, image, trace>>

(* `for dependency, version in dependencies:' with no element left. *)
install_loop_end ==
    /\ pc = "install_loop"
    /\ loc.i > Len(loc.dependencies)
    /\ pc' = "install_cleanup"
    /\ UNCHANGED <<images, snapshots, op, idx, args, image, loc, trace>>

(* The body of the second loop, lines 284-321.  The list the loop reads is
   always empty (install_parse_result), so no step of the program is one of
   these; they are not part of Next. *)
install_reboot_calls == <<
    Rpc("shutdown"),
    Hv("wait_for_state"),
    Hv("start_vm"),
    WaitForHost >>

RunEvent(name, ok) == [kind |-> "run", call |-> "run", arg |-> name, ok |-> ok]

(* if dependency not in vmcloak.dependencies.names: break *)
install_loop_unknown ==
    /\ pc = "install_loop"
    /\ loc.i <= Len(loc.dependencies)
    /\ loc.dependencies[loc.i][1] \notin DependencyNames
    /\ pc' = "install_cleanup"
    /\ UNCHANGED <<images, snapshots, op, idx, args, image, loc, trace>>

(* d = names[dependency]; with children, go through them first. *)
install_loop_known ==
    /\ pc = "install_loop"
    /\ loc.i <= Len(loc.dependencies)
    /\ loc.dependencies[loc.i][1] \in DependencyNames
    /\ pc' = IF Depends(loc.dependencies[loc.i][1]) # <<>>
               THEN "install_children" ELSE "install_run"
    /\ loc' = [loc EXCEPT !.j = 1]
    /\ UNCHANGED <<images, snapshots, op, idx, args, image, trace>>

(* dd = names[depend]; dd(...).run(): a KeyError when the child is not
   registered, which nothing catches; a DependencyError leaves the loop. *)
install_child ==
    /\ pc = "install_children"
    /\ LET depends == Depends(loc.dependencies[loc.i][1])
           depend == SplitColon(depends[loc.j])[1]
       IN  /\ loc.j <= Len(depends)
           /\ IF depend \notin DependencyNames
                THEN /\ pc' = "aborted"
                     /\ UNCHANGED <<loc, trace>>
                ELSE \E ok \in BOOLEAN :
                        /\ trace' = Append(trace, RunEvent(depend, ok))
                        /\ pc' = IF ~ok THEN "install_cleanup"
                                 ELSE IF loc.j = Len(depends) THEN "install_reboot"
                                 ELSE pc
                        /\ loc' = [loc EXCEPT !.j = loc.j + 1]
    /\ UNCHANGED <<images, snapshots, op, idx, args, image>>

(* a.shutdown(); m.wait_for_state(shutdown=True); m.start_vm();
   wait_for_host() *)
install_reboot ==
    /\ pc = "install_reboot"
    /\ RunCall(install_reboot_calls, "install_run")

(* d(h, m, a, image, version, settings).run() *)
install_run ==
    /\ pc = "install_run"
    /\ \E ok \in BOOLEAN :
        /\ trace' = Append(trace, RunEvent(loc.dependencies[loc.i][1], ok))
        /\ pc' = IF ok THEN "install_loop" ELSE "install_cleanup"
        /\ loc' = [loc EXCEPT !.i = loc.i + 1]
    /\ UNCHANGED <<images, snapshots, op, idx, args, image>>

install_loop_body ==
    \/ install_loop_unknown
    \/ install_loop_known
    \/ install_child
    \/ install_reboot
    \/ install_run

install_cleanup ==
    /\ pc = "install_cleanup"
    /\ RunCall(install_cleanup_calls, "done")

-----------------------------------------------------------------------------
(* modify *)

modify_calls == <<
    Hv("create_vm"), Hv("os_type"), Hv("cpus"), Hv("mouse"), Hv("ramsize"),
    Cmd("hv", "attach_hd", "single"),
    Hv("detach_iso"), Hv("hostonly"),
    Hv("start_vm"),
    WaitForHost,
    Hv("wait_for_state"),
    Hv("remove_hd"), Hv("compact_hd"), Hv("delete_vm") >>

modify_begin(name) ==
    /\ pc = "idle"
    /\ op' = "modify"
    /\ args' = [name |-> name]
    /\ IF FindByName(name) = {}
         THEN /\ pc' = "exit"
              /\ image' = 0
         ELSE /\ image' \in FindByName(name)
              /\ pc' = IF image_locked(images[image']) THEN "exit"
                       ELSE "modify_vm"
    /\ UNCHANGED <<images, snapshots, idx, loc, trace>>

modify_vm ==
    /\ pc = "modify_vm"
    /\ RunCall(modify_calls, "done")

-----------------------------------------------------------------------------
(* snapshot *)

snapshot_calls_stop_first(resolution) ==
    << Hv("create_vm"), Hv("os_type"), Hv("cpus"), Hv("mouse"), Hv("ramsize"),
       Cmd("hv", "attach_hd", "multi"),
       Hv("hostonly"),
       Hv("start_vm"),
       WaitForHost,
       Rpc("ping"),
       Rpc("hostname"), Rpc("reboot"), Rpc("kill"),
       WaitForHost,
       Rpc("ping") >>
    \o (IF resolution # "" THEN <<Rpc("resolution")>> ELSE <<>>)
    \o << Rpc("remove"), Rpc("static_ip"),
          Hv("stopvm"), Hv("snapshot") >>

snapshot_calls_nowait(resolution) ==
    << Hv("create_vm"), Hv("os_type"), Hv("cpus"), Hv("mouse"), Hv("ramsize"),
       Cmd("hv", "attach_hd", "multi"),
       Hv("hostonly"),
       Hv("start_vm"),
       WaitForHost,
       Rpc("ping"),
       Rpc("hostname"), Rpc("reboot"), Rpc("kill"),
       Rpc("ping") >>
    \o (IF resolution # "" THEN <<Rpc("resolution")>> ELSE <<>>)
    \o << Rpc("remove"), Rpc("static_ip"),
          Hv("snapshot"), Hv("stopvm") >>

snapshot_calls(resolution) ==
    << Hv("create_vm"), Hv("os_type"), Hv("cpus"), Hv("mouse"), Hv("ramsize"),
       Cmd("hv", "attach_hd", "multi"),
       Hv("hostonly"),
       Hv("start_vm"),
       WaitForHost,
       Rpc("ping"),
       Rpc("hostname"), Rpc("reboot"), Rpc("kill"),
       WaitForHost,
       Rpc("ping") >>
    \o (IF resolution # "" THEN <<Rpc("resolution")>> ELSE <<>>)
    \o << Rpc("remove"), Rpc("static_ip"),
          Hv("snapshot"), Hv("stopvm") >>

(* image.mode = "multiattach"; session.commit() *)
snapshot_lock_rows_skipped(rows, i) == rows

snapshot_lock_rows(rows, i) ==
    [rows EXCEPT ![i].mode = "multiattach"]

(* The row snapshot adds. *)
snapshot_row(rows, img, a) ==
    [id |-> Len(rows) + 1, image_id |-> img.id, vmname |-> a.vmname,
     ipaddr |-> a.ipaddr, port |-> img.port, hostname |-> a.hostname]

snapshot_begin(name, vmname, resolution) ==
    /\ pc = "idle"
    /\ Len(snapshots) < MaxSnapshots
    /\ op' = "snapshot"
    /\ args' = [name |-> name, vmname |-> vmname, resolution |-> resolution,
                ipaddr |-> "192.168.56.101", hostname |-> "hostname"]
    /\ IF FindByName(name) = {}
         THEN /\ pc' = "exit"
              /\ image' = 0
         ELSE /\ image' \in FindByName(name)
              /\ pc' = "snapshot_lock"
    /\ UNCHANGED <<images, snapshots, idx, loc, trace>>

snapshot_lock ==
    /\ pc = "snapshot_lock"
    /\ images' = snapshot_lock_rows(images, image)
    /\ pc' = "snapshot_vm"
    /\ UNCHANGED <<snapshots, op, idx, args, image, loc, trace>>

snapshot_vm ==
    /\ pc = "snapshot_vm"
    /\ RunCall(snapshot_calls(args.resolution), "snapshot_commit")

snapshot_commit ==
    /\ pc = "snapshot_commit"
    /\ snapshots' = Append(snapshots, snapshot_row(snapshots, images[image], args))
    /\ pc' = "done"
    /\ UNCHANGED <<images, op, idx, args, image, loc, trace>>

-----------------------------------------------------------------------------
(* export *)

(* filepath.endswith((".ova", ".ovf")) *)
EndsWithOvaOvf(filepath) == filepath \in {"out.ova", "out.ovf"}

export_calls == <<
    Hv("create_vm"), Hv("os_type"), Hv("cpus"), Hv("mouse"), Hv("ramsize"),
    Cmd("hv", "attach_hd", "single"),
    Hv("detach_iso"), Hv("hostonly"),
    Hv("export"),
    Hv("remove_hd"), Hv("compact_hd"), Hv("delete_vm") >>

export_begin(name, filepath) ==
    /\ pc = "idle"
    /\ op' = "export"
    /\ args' = [name |-> name, filepath |-> filepath]
    /\ IF ~EndsWithOvaOvf(filepath) \/ FindByName(name) = {}
         THEN /\ pc' = "exit"
              /\ image' = 0
         ELSE /\ image' \in FindByName(name)
              /\ pc' = IF image_locked(images[image']) THEN "exit"
                       ELSE "export_vm"
    /\ UNCHANGED <<images, snapshots, idx, loc, trace>>

export_vm_locking ==
    /\ pc = "export_vm"
    /\ idx <= Len(export_calls)
    /\ \E ok \in Outcomes(export_calls[idx]) :
        /\ trace' = Append(trace, Event(export_calls[idx], ok))
        /\ IF ~ok
             THEN pc' = "aborted" /\ idx' = idx
             ELSE IF idx = Len(export_calls)
                    THEN pc' = "done" /\ idx' = 1
                    ELSE pc' = pc /\ idx' = idx + 1
    /\ images' = [images EXCEPT ![image].mode = "multiattach"]
    /\ UNCHANGED <<snapshots, op, args, image, loc>>

export_vm ==
    /\ pc = "export_vm"
    /\ RunCall(export_calls, "done")

-----------------------------------------------------------------------------
(* The program: commands invoked one after another, each run call by call. *)

Next ==
    \/ \E name \in Names, outname \in Names : clone_begin(name, outname)
    \/ clone_hd
    \/ clone_commit
    \/ \E name \in Names, flags \in OsFlagChoices, vm \in VmChoices,
          ramsize \in RamChoices, cpus \in CpuChoices, env \in EnvChoices :
            init_begin(name, flags, vm, ramsize, cpus, env)
    \/ init_vm
    \/ init_commit
    \/ \E name \in Names, dependencies \in RequestChoices :
            install_begin(name, dependencies)
    \/ install_vm
    \/ install_parse
    \/ install_loop_end
    \/ install_cleanup
    \/ \E name \in Names : modify_begin(name)
    \/ modify_vm
    \/ \E name \in Names, vmname \in VmNames, resolution \in ResolutionChoices :
            snapshot_begin(name, vmname, resolution)
    \/ snapshot_lock
    \/ snapshot_vm
    \/ snapshot_commit
    \/ \E name \in Names, filepath \in FilepathChoices : export_begin(name, filepath)
    \/ export_vm
    \/ Return

Spec == Init /\ [][Next]_vars

(* init alone, tried with every OS variant, with two flags at once, and with
   --ramsize absent, 0 and 512. *)
BuildFlagChoices ==
    {{}} \cup {{OsVariants[k]} : k \in DOMAIN OsVariants}
         \cup {{"win7x64", "winxp"}}
BuildRamChoices == {<<>>, <<0>>, <<512>>}

NextBuild ==
    \/ \E name \in Names, flags \in BuildFlagChoices, ramsize \in BuildRamChoices :
            init_begin(name, flags, "virtualbox", ramsize, 1, "ok")
    \/ init_vm
    \/ init_commit
    \/ Return

SpecBuild == Init /\ [][NextBuild]_vars

-----------------------------------------------------------------------------
(* Properties. *)

Ended == pc \in {"done", "exit", "aborted"}

Count(call) == Cardinality({k \in DOMAIN trace : trace[k].call = call})

IsSnapshotOf(s, i) == snapshots[s].image_id = images[i].id

(* C1: the mode of an Image row only ever goes from normal to multiattach:
   no step of any command takes a row that is multiattach back to normal or
   away. *)
C1_ModeMonotone ==
    [][\A i \in DOMAIN images :
          images[i].mode = "multiattach"
            => i \in DOMAIN images' /\ images'[i].mode = "multiattach"]_vars

(* A clone of a multiattach row has completed. *)
W_C1 ==
    /\ op = "clone" /\ pc = "done"
    /\ images[image].mode = "multiattach"
    /\ images[Len(images)].mode = "normal"

(* C2: whenever no command is running, also after a snapshot that gave up
   behind its first commit, every multiattach Image row has a Snapshot row
   that references it. *)
CE_C2 ==
    pc = "idle" =>
        \A i \in DOMAIN images :
            images[i].mode = "multiattach"
              => \E s \in DOMAIN snapshots : IsSnapshotOf(s, i)

(* C3: install, modify or export of an Image whose mode is not normal exits
   before it has issued any hypervisor command or agent request, and no step
   of it changes an Image or Snapshot row. *)
Rejected ==
    /\ op \in {"install", "modify", "export"}
    /\ image # 0
    /\ images[image].mode # "normal"

C3_LockedRejected ==
    /\ [](Rejected => pc = "exit" /\ trace = <<>>)
    /\ [][(Rejected \/ Rejected') => UNCHANGED <<images, snapshots>>]_vars

W_C3 == Rejected /\ pc = "exit"

(* What install has run behind its first ping: the installers, by name, and
   a "reboot" for each restart of the VM. *)
LoopTrace == SubSeq(trace, Len(install_calls) + 1, Len(trace))

RECURSIVE Realized(_)
Realized(t) ==
    IF t = <<>> THEN <<>>
    ELSE (IF Head(t).kind = "run" THEN <<Head(t).arg>>
          ELSE IF Head(t).call = "start_vm" THEN <<"reboot">>
          ELSE <<>>) \o Realized(Tail(t))

(* What a request list asks for: each dependency in request order, behind
   its children and one reboot when it declares children. *)
RECURSIVE Plan(_)
Plan(req) ==
    IF req = <<>> THEN <<>>
    ELSE Depends(Head(req))
         \o (IF Depends(Head(req)) # <<>> THEN <<"reboot">> ELSE <<>>)
         \o <<Head(req)>>
         \o Plan(Tail(req))

Known(req) == \A k \in DOMAIN req : req[k] \in DependencyNames

(* The part of a request list before its first unknown name. *)
RECURSIVE KnownPrefix(_)
KnownPrefix(req) ==
    IF req = <<>> \/ Head(req) \notin DependencyNames THEN <<>>
    ELSE <<Head(req)>> \o KnownPrefix(Tail(req))

(* C4: an install of a list of known dependencies that has completed has
   run the installers in request order, the children of a dependency in
   their declared order before it, and one reboot between the children and
   the parent: for [A, B] with B declaring C it has run A, C, reboot, B. *)
CE_C4 ==
    (op = "install" /\ pc = "done" /\ Known(args.dependencies))
        => Realized(LoopTrace) = Plan(args.dependencies)

(* C5: an install of a list with an unknown name has installed what was
   requested before the unknown name and nothing requested after it: for
   [A, X, B] with X unknown it has run A and only A. *)
CE_C5 ==
    (op = "install" /\ pc = "done" /\ ~Known(args.dependencies))
        => Realized(LoopTrace) = Plan(KnownPrefix(args.dependencies))

(* C6: an install that reached the dependency loop has, when it ends, issued
   the final shutdown, the wait for power-off and the disk compaction exactly
   once each. *)
ReachedLoop == op = "install" /\ "dependencies" \in DOMAIN loc

CE_C6 ==
    (ReachedLoop /\ Ended)
        => /\ Count("shutdown") = 1
           /\ Count("wait_for_state") = 1
           /\ Count("compact_hd") = 1

(* C7: in install no agent request follows a shutdown() unless a successful
   wait_for_host lies between the two. *)
C7_NoRpcAfterShutdown ==
    op = "install" =>
        \A k \in DOMAIN trace :
            (trace[k].kind = "agent" /\ trace[k].call = "shutdown") =>
                \A m \in DOMAIN trace :
                    (m > k /\ trace[m].kind \in {"agent", "run"}) =>
                        \E j \in (k + 1) .. (m - 1) :
                            trace[j].call = "wait_for_host" /\ trace[j].ok

(* An install has issued its shutdown() and gone on to the end. *)
W_C7 ==
    /\ op = "install" /\ pc = "done"
    /\ \E k \in DOMAIN trace : trace[k].call = "shutdown" /\ k < Len(trace)

(* C8: every Snapshot row references an Image row whose mode is multiattach;
   a Snapshot row, once there, is never changed or removed; and the table
   grows by exactly one row on the step that completes a snapshot command and
   on no other step. *)
SnapshotRefsMultiattach ==
    \A s \in DOMAIN snapshots :
        \E i \in DOMAIN images :
            IsSnapshotOf(s, i) /\ images[i].mode = "multiattach"

C8_SnapshotRows ==
    /\ []SnapshotRefsMultiattach
    /\ [][/\ \A s \in DOMAIN snapshots :
                s \in DOMAIN snapshots' /\ snapshots'[s] = snapshots[s]
          /\ Len(snapshots') = Len(snapshots)
                + (IF op = "snapshot" /\ pc # "done" /\ pc' = "done" THEN 1 ELSE 0)]_vars

(* A snapshot command has completed, and a later command is running. *)
W_C8 ==
    /\ Len(snapshots) >= 1
    /\ op = "clone" /\ pc = "done"
    /\ \E s \in DOMAIN snapshots : IsSnapshotOf(s, image)

(* C9: a clone that completes adds a row with a new id, mode normal, the
   osversion, servicepack, cpus, ramsize, ipaddr, port, netmask, gateway and
   adapter of the source row, and a path that is not the source's path; the
   rows that were there are unchanged. *)
CopiedFields == {"osversion", "servicepack", "cpus", "ramsize", "ipaddr",
                 "port", "netmask", "gateway", "adapter"}

CE_C9 ==
    [][(op = "clone" /\ pc = "clone_commit") =>
          /\ Len(images') = Len(images) + 1
          /\ \A i \in DOMAIN images : images'[i] = images[i]
          /\ LET new == images'[Len(images')]
                 src == images[image]
             IN  /\ \A i \in DOMAIN images : new.id # images[i].id
                 /\ new.mode = "normal"
                 /\ \A f \in CopiedFields : new[f] = src[f]
                 /\ new.path # src.path]_vars

(* C10: no two Image rows have the same name. *)
CE_C10 ==
    \A i, j \in DOMAIN images :
        i # j => images[i].name # images[j].name

(* The default the claim gives for each variant. *)
ClaimedDefaultRam(osversion) ==
    IF osversion \in {"win7x64", "win81x86", "win81x64", "win10x86", "win10x64"}
      THEN 2048
    ELSE IF osversion \in {"winxp", "win7x86"} THEN 1024
    ELSE 0

(* The row a completed init has left under its name. *)
BuiltRow == images[Len(images)]

BuiltAsClaimed(ram) ==
    /\ BuiltRow.name = args.name
    /\ Len(images) \in FindByName(args.name)
    /\ BuiltRow.mode = "normal"
    /\ BuiltRow.osversion \in args.flags
    /\ BuiltRow.servicepack = ServicePack(BuiltRow.osversion)
    /\ BuiltRow.ramsize = ram

(* The calls that have returned, by name, in order. *)
Returned == [k \in DOMAIN SelectSeq(trace, LAMBDA e : e.ok) |->
                SelectSeq(trace, LAMBDA e : e.ok)[k].call]

LastCalls(n) == SubSeq(Returned, Len(Returned) - n + 1, Len(Returned))

(* The Image row is added only behind the shutdown of the VM, the detaching
   of the media and of the disk, the compaction and the deletion of the VM. *)
PersistedAfterTeardown ==
    [][(op = "init" /\ images' # images) =>
          /\ Len(Returned) >= 5
          /\ LastCalls(5) = <<"wait_for_state", "detach_iso", "remove_hd",
                              "compact_hd", "delete_vm">>
          /\ images' = Append(images, images'[Len(images')])]_vars

(* C11 as claimed: a completed init has left a row with mode normal, the
   service pack of the handler and, as ram, the default of the variant when
   --ramsize was not given and the given value when it was; the row is added
   only behind the teardown of the VM. *)
CE_C11 ==
    /\ []((op = "init" /\ pc = "done") =>
            BuiltAsClaimed(IF args.ramsize = <<>>
                             THEN ClaimedDefaultRam(BuiltRow.osversion)
                             ELSE args.ramsize[1]))
    /\ PersistedAfterTeardown

(* C11 as amended: the given value is used when it is not 0; a --ramsize of
   0 resolves to the default of the variant, as an absent one does. *)
C11_Build ==
    /\ []((op = "init" /\ pc = "done") =>
            BuiltAsClaimed(IF args.ramsize = <<>> \/ args.ramsize = <<0>>
                             THEN ClaimedDefaultRam(BuiltRow.osversion)
                             ELSE args.ramsize[1]))
    /\ PersistedAfterTeardown

(* Builds have completed with the default and with a given ram. *)
W_C11 ==
    /\ op = "init" /\ pc = "done"
    /\ args.ramsize = <<>> /\ BuiltRow.osversion = "win7x64"
    /\ BuiltRow.ramsize = 2048
    /\ \E i \in DOMAIN images : images[i].ramsize = 512

(* A (re)start of the VM: start_vm, or a reboot asked of the agent. *)
IsRestart(e) ==
    \/ e.kind = "hv" /\ e.call = "start_vm"
    \/ e.kind = "agent" /\ e.call = "reboot"

IsRpc(e) == e.kind \in {"agent", "run"}

ReachableBetween(k, m) ==
    \E j \in (k + 1) .. (m - 1) : trace[j].call = "wait_for_host" /\ trace[j].ok

(* C14 as claimed: in install, modify and snapshot no agent request follows
   a (re)start of the VM unless a successful wait_for_host lies between. *)
CE_C14 ==
    op \in {"install", "modify", "snapshot"} =>
        \A k, m \in DOMAIN trace :
            (k < m /\ IsRestart(trace[k]) /\ IsRpc(trace[m]))
                => ReachableBetween(k, m)

(* C14 as amended: the same, but for the kill() that snapshot issues
   directly behind its reboot(). *)
C14_ReachableBeforeRpc ==
    op \in {"install", "modify", "snapshot"} =>
        \A k, m \in DOMAIN trace :
            (k < m /\ IsRestart(trace[k]) /\ IsRpc(trace[m]))
                => \/ ReachableBetween(k, m)
                   \/ /\ op = "snapshot"
                      /\ trace[k].call = "reboot"
                      /\ m = k + 1
                      /\ trace[m].call = "kill"

(* A snapshot has gone through its reboot and is talking to the agent again. *)
W_C14 ==
    /\ op = "snapshot"
    /\ \E k, m \in DOMAIN trace :
          /\ k < m
          /\ trace[k].call = "reboot" /\ trace[k].ok
          /\ trace[m].call = "ping" /\ trace[m].ok

(* The steps the claim lists for a snapshot, by the name of the call. *)
ListedSteps(resolution) ==
    << "create_vm", "attach_hd", "start_vm",
       "wait_for_host", "ping", "hostname", "reboot",
       "wait_for_host", "ping" >>
    \o (IF resolution # "" THEN <<"resolution">> ELSE <<>>)
    \o << "remove", "static_ip", "snapshot", "stopvm" >>

ListedCalls == {"create_vm", "attach_hd", "start_vm", "wait_for_host", "ping",
                "hostname", "reboot", "resolution", "remove", "static_ip",
                "snapshot", "stopvm"}

CallsOf(t) == [k \in DOMAIN t |-> t[k].call]

(* C15: a snapshot that completes has issued the listed steps in the listed
   order, each once (twice for the reconnect), with the disk attached
   multi-attach; the Image is multiattach in the repository from before its
   first hypervisor command; the Snapshot row is added only behind stopvm;
   and no agent request follows static_ip. *)
C15_SnapshotOrder ==
    /\ []((op = "snapshot" /\ pc = "done") =>
            /\ CallsOf(SelectSeq(trace, LAMBDA e : e.call \in ListedCalls))
                 = ListedSteps(args.resolution)
            /\ \A k \in DOMAIN trace :
                  trace[k].call = "attach_hd" => trace[k].arg = "multi"
            /\ \A k, m \in DOMAIN trace :
                  (trace[k].call = "static_ip" /\ m > k)
                      => trace[m].kind # "agent")
    /\ []((op = "snapshot" /\ trace # <<>>) =>
            images[image].mode = "multiattach")
    /\ [][(op = "snapshot" /\ snapshots' # snapshots) =>
            /\ trace # <<>>
            /\ trace[Len(trace)].call = "stopvm" /\ trace[Len(trace)].ok
            /\ Len(snapshots') = Len(snapshots) + 1]_vars

(* A snapshot with a resolution has completed. *)
W_C15 ==
    /\ op = "snapshot" /\ pc = "done"
    /\ args.resolution # ""
    /\ \E s \in DOMAIN snapshots : IsSnapshotOf(s, image)

(* What init must turn down: a name that is taken, a machinery other than
   virtualbox, no OS flag, and an install-media directory, a serial key or an
   ISO build that fails. *)
InitMustReject(a) ==
    \/ \E i \in DOMAIN images : images[i].name = a.name
    \/ a.vm # "virtualbox"
    \/ a.flags = {}
    \/ a.env \in {"no_iso", "bad_serial", "buildiso_failed"}

(* C16: init turns down each such invocation with exit(1): it has issued no
   hypervisor command and adds no Image row. *)
C16_InitRejects ==
    /\ []((op = "init" /\ InitMustReject(args) /\ pc # "done")
            => pc = "exit" /\ trace = <<>>)
    /\ []((op = "init" /\ pc = "exit")
            => \A k \in DOMAIN trace : trace[k].kind # "hv")
    /\ [][((op = "init" /\ pc = "exit") \/ (op' = "init" /\ pc' = "exit"))
            => UNCHANGED <<images, snapshots>>]_vars

(* init has turned down an invocation whose ISO build failed, everything
   else being in order. *)
W_C16 ==
    /\ op = "init" /\ pc = "exit"
    /\ args.env = "buildiso_failed"
    /\ args.vm = "virtualbox" /\ args.flags # {}
    /\ FindByName(args.name) = {}

(* C17: no step of an install, modify or export, from its invocation to its
   end, changes the Image rows or the Snapshot rows. *)
ReadOnlyCommands == {"install", "modify", "export"}

C17_ReadOnly ==
    [][(op \in ReadOnlyCommands \/ op' \in ReadOnlyCommands)
          => images' = images /\ snapshots' = snapshots]_vars

(* An install, modify or export has got past the lock test and has ended, in
   a repository that holds rows of both tables. *)
W_C17 ==
    /\ op \in ReadOnlyCommands
    /\ pc \in {"done", "aborted"}
    /\ trace # <<>>
    /\ images # <<>> /\ snapshots # <<>>

(* Whether a disk is attached to the VM behind the first k calls, and whether
   the VM has been started and not since been seen powered off. *)
RECURSIVE DiskAttached(_)
DiskAttached(k) ==
    IF k = 0 THEN FALSE
    ELSE IF trace[k].ok /\ trace[k].call \in {"attach_hd", "create_hd"} THEN TRUE
    ELSE IF trace[k].ok /\ trace[k].call = "remove_hd" THEN FALSE
    ELSE DiskAttached(k - 1)

RECURSIVE MaybeRunning(_)
MaybeRunning(k) ==
    IF k = 0 THEN FALSE
    ELSE IF trace[k].call = "start_vm" THEN TRUE
    ELSE IF trace[k].ok /\ trace[k].call = "wait_for_state" THEN FALSE
    ELSE MaybeRunning(k - 1)

(* C18: in init, install, modify and export a disk is attached or created
   only while none is attached, remove_hd is issued only while one is
   attached, compact_hd only behind a remove_hd and with the VM seen powered
   off or never started, and a completed run ends with delete_vm. *)
C18_DiskDiscipline ==
    op \in {"init", "install", "modify", "export"} =>
        /\ \A k \in DOMAIN trace :
              /\ trace[k].call \in {"attach_hd", "create_hd"}
                    => ~DiskAttached(k - 1)
              /\ trace[k].call = "remove_hd" => DiskAttached(k - 1)
              /\ trace[k].call = "compact_hd"
                    => /\ ~DiskAttached(k - 1)
                       /\ ~MaybeRunning(k - 1)
                       /\ \E j \in 1 .. (k - 1) :
                             trace[j].call = "remove_hd" /\ trace[j].ok
        /\ pc = "done" =>
              /\ trace # <<>>
              /\ trace[Len(trace)].call = "delete_vm"
              /\ \A k \in DOMAIN trace :
                    trace[k].call = "delete_vm" => k = Len(trace)

(* An install has compacted the disk and completed. *)
W_C18 ==
    /\ op = "install" /\ pc = "done"
    /\ \E k \in DOMAIN trace : trace[k].call = "compact_hd" /\ trace[k].ok

(* C19: children are expanded one level deep and are not deduplicated: an
   install of [C, B], where B declares the child C and C declares the child
   A, has run A and a reboot for the requested C, then C, then C again as the
   child of B (without A, and without a reboot on A's account), one reboot,
   then B. *)
CE_C19 ==
    (op = "install" /\ pc = "done" /\ args.dependencies = <<"C", "B">>)
        => Realized(LoopTrace) = <<"A", "reboot", "C", "C", "reboot", "B">>

====
